---- MODULE Spec2Model ----
(***************************************************************************)
(* School attendance tracker: the persistent store (students,              *)
(* attendance_records, attendance_notifications), the data access layer,   *)
(* the aggregations and the notification dispatchers.                      *)
(*                                                                         *)
(* The specifications share the variables:                                *)
(*   Spec          the store and the data access layer (supabaseService)   *)
(*   SpecTrends    checkAttendanceTrends applied to one student's window   *)
(*   SpecDispatch  the notification dispatch handlers                      *)
(*   SpecCleanup   the retention sweep                                     *)
(*   SpecPhone     formatMauritianPhoneNumber                              *)
(*   SpecImport    parseCSV                                                *)
(*   SpecRace      recordAttendance and deleteStudent calls whose store    *)
(*                 requests interleave                                     *)
(*   SpecBulk      sendBulkNotifications with its per-student calls in     *)
(*                 flight                                                  *)
(***************************************************************************)
EXTENDS Integers, Sequences, FiniteSets

(* ---------------------------- bounds ----------------------------------- *)
MaxStudents == 2
MaxDate == 2
MaxLen == 6
MaxPhoneLen == 4
MaxRows == 3
MaxCallers == 2
MaxBatchStudents == 6

(* ------------------------ program constants ---------------------------- *)
WindowDays == 30
ConsecutiveThreshold == 3
RateThreshold == 20
MinRecords == 5
RetentionDays == 30
BatchSize == 5

StudentIds == 1..MaxStudents
Today == WindowDays + MaxLen + MaxDate
Dates == (Today - MaxDate + 1)..Today
Statuses == {"present", "absent", "late", "excused"}
Classes == {"10A", "10B"}

VARIABLES
  students,                 \* table students: a function from the ids that have a row to the row
  attendance_records,       \* table attendance_records: a set of rows
  attendance_notifications, \* rows the running request tried to insert, in order
  lastCall,                 \* history: status passed by the latest successful recordAttendance per (student, date)
  last,                     \* outcome of the last data-access operation
  trend,                    \* input and result of checkAttendanceTrends for one student
  request,                  \* the dispatch request being served
  attempts,                 \* provider sends made for the request, in order
  response,                 \* the response of the dispatch handler
  phoneNumber,              \* input and results of formatMauritianPhoneNumber
  csv,                      \* content given to parseCSV and its result
  calls                     \* the asynchronous calls in flight, each with its position

vars == <<students, attendance_records, attendance_notifications, lastCall, last,
          trend, request, attempts, response, phoneNumber, csv, calls>>

storeVars == <<students, attendance_records, lastCall, last>>
trendVars == <<trend>>
dispatchVars == <<attendance_notifications, request, attempts, response>>
utilVars == <<phoneNumber, csv>>
callVars == <<calls>>

(* ---------------------------- helpers ---------------------------------- *)
\* A nullable column or property is a set: {} is null (or undefined), {v} is the value v.
\* JavaScript property access: a property the object lacks reads as undefined.
Field(obj, name) == IF name \in DOMAIN obj THEN obj[name] ELSE {}

\* JavaScript truthiness of a nullable value
Truthy(v) == v # {}

Max(a, b) == IF a >= b THEN a ELSE b

StudentRow(s, c, phone, email) ==
  [id |-> s, class |-> c, contact_phone |-> phone, email |-> email, deleted_at |-> {}]

Rows == {students[s] : s \in DOMAIN students}

RecordsOf(s) == {r \in attendance_records : r.student_id = s}

\* a fresh row id (the store generates a UUID): the key and the smallest serial
\* number no row of that key uses
FreshId(s, d) ==
  <<s, d, CHOOSE i \in 1..(Cardinality(attendance_records) + 1) :
            \A r \in attendance_records : r.id # <<s, d, i>>>>

NoCalls == [k \in StudentIds \X Dates |-> "none"]
\* last.n: the rows deleteStudent or clearStudents removed, the rows the existence
\* check of recordAttendance found
Idle == [op |-> "none", student |-> 0, ok |-> TRUE, n |-> 0]
Done(op, s, ok, n) == [op |-> op, student |-> s, ok |-> ok, n |-> n]

(* ------------------- data access layer: students ----------------------- *)
\* addStudents: insert one row; the primary key rejects an id that already has a row
AddStudents(s, c, phone, email) ==
  /\ IF s \in DOMAIN students
       THEN /\ UNCHANGED <<students>>
            /\ last' = Done("addStudents", s, FALSE, 0)
       ELSE /\ students' = [x \in DOMAIN students \cup {s} |->
                              IF x = s THEN StudentRow(s, c, phone, email) ELSE students[x]]
            /\ last' = Done("addStudents", s, TRUE, 0)
  /\ UNCHANGED <<attendance_records, lastCall>>

\* moveStudentToBin: soft delete, sets deleted_at to now
MoveStudentToBin(s) ==
  /\ s \in DOMAIN students
  /\ students' = [students EXCEPT ![s].deleted_at = {Today}]
  /\ last' = Done("moveStudentToBin", s, TRUE, 0)
  /\ UNCHANGED <<attendance_records, lastCall>>

\* restoreStudent: clears deleted_at
RestoreStudent(s) ==
  /\ s \in DOMAIN students
  /\ students' = [students EXCEPT ![s].deleted_at = {}]
  /\ last' = Done("restoreStudent", s, TRUE, 0)
  /\ UNCHANGED <<attendance_records, lastCall>>

\* the attendance rows deleteStudent removes for student s
DeleteStudentKeepsRecords(s) == {}
DeleteStudentRemoves(s) == RecordsOf(s)

\* deleteStudent: delete the attendance rows, then the student row; a store error
\* at either step is thrown and ends the call there
DeleteStudent(s, outcome) ==
  /\ outcome \in {"ok", "attendanceError", "studentError"}
  /\ attendance_records' =
       IF outcome = "attendanceError" THEN attendance_records
       ELSE attendance_records \ DeleteStudentRemoves(s)
  /\ students' =
       IF outcome = "ok" THEN [x \in DOMAIN students \ {s} |-> students[x]]
       ELSE students
  /\ lastCall' =
       IF outcome = "attendanceError" THEN lastCall
       ELSE [k \in StudentIds \X Dates |-> IF k[1] = s THEN "none" ELSE lastCall[k]]
  /\ last' = Done("deleteStudent", s, outcome = "ok",
                  Cardinality(attendance_records \ attendance_records'))

\* clearStudents: delete every attendance row, then every student row
ClearStudents ==
  /\ attendance_records' = {}
  /\ students' = [x \in {} |-> x]
  /\ lastCall' = NoCalls
  /\ last' = Done("clearStudents", 0, TRUE, Cardinality(attendance_records))

(* ------------------ data access layer: attendance ---------------------- *)
\* the rows the existence check of recordAttendance finds for (s, d)
ExistingIgnoresDate(s, d) == {r \in attendance_records : r.student_id = s}
Existing(s, d) == {r \in attendance_records : r.student_id = s /\ r.date = d}

\* recordAttendance: look the student up (.single() fails without a row), look for
\* a row of (student, date), update existingData[0] when there is one, insert otherwise
RecordAttendance(s, d, st) ==
  IF s \notin DOMAIN students
    THEN /\ last' = Done("recordAttendance", s, FALSE, 0)
         /\ UNCHANGED <<students, attendance_records, lastCall>>
    ELSE /\ IF Existing(s, d) # {}
              THEN \E e \in Existing(s, d) :
                     attendance_records' =
                       (attendance_records \ {e}) \cup
                         {[id |-> e.id, student_id |-> s, date |-> d, status |-> st]}
              ELSE attendance_records' =
                     attendance_records \cup
                       {[id |-> FreshId(s, d), student_id |-> s, date |-> d, status |-> st]}
         /\ lastCall' = [lastCall EXCEPT ![<<s, d>>] = st]
         /\ last' = Done("recordAttendance", s, TRUE, Cardinality(Existing(s, d)))
         /\ UNCHANGED students

(* --------------------- aggregation: supabaseService -------------------- *)
\* getStudents: every row of the table, mapped to a Student object
StudentOfRow(row) ==
  [id |-> row.id, class |-> row.class, email |-> row.email,
   contactPhone |-> row.contact_phone]

GetStudents(rows) == {StudentOfRow(row) : row \in rows}

CountStatus(recs, st) == Cardinality({r \in recs : r.status = st})

\* getAttendanceSummary: total counts the rows of students, the four buckets count
\* the rows of attendance_records stamped with the date
GetAttendanceSummary(rows, recs, date) ==
  LET records == {r \in recs : r.date = date}
  IN [date |-> date,
      present |-> CountStatus(records, "present"),
      absent |-> CountStatus(records, "absent"),
      late |-> CountStatus(records, "late"),
      excused |-> CountStatus(records, "excused"),
      total |-> Cardinality(rows)]

\* a percentage num / den * 100 kept exact as the pair of its numerator and denominator
Rate(num, den) == [num |-> num, den |-> den]

\* the rate taken over the class size alone, whatever the number of dates
ClassSummaryOfOneDate(rows, recs, className) ==
  LET totalStudents == Cardinality({row \in rows : row.class = className})
      studentIds == {row.id : row \in {x \in rows : x.class = className}}
      uniqueDates == {r.date : r \in recs}
      presentCount ==
        IF studentIds # {} /\ uniqueDates # {}
          THEN Cardinality({r \in recs : r.student_id \in studentIds
                                         /\ r.status \in {"present", "late"}})
          ELSE 0
      totalPossibleRecords == totalStudents
  IN [className |-> className,
      totalStudents |-> totalStudents,
      attendanceRate |-> IF totalPossibleRecords > 0
                           THEN Rate(presentCount * 100, totalPossibleRecords)
                           ELSE Rate(100, 1),
      presentCount |-> presentCount]

\* getClassSummaries: one summary per class label among the rows of students
ClassSummaryOf(rows, recs, className) ==
  LET totalStudents == Cardinality({row \in rows : row.class = className})
      studentIds == {row.id : row \in {x \in rows : x.class = className}}
      uniqueDates == {r.date : r \in recs}
      presentCount ==
        IF studentIds # {} /\ uniqueDates # {}
          THEN Cardinality({r \in recs : r.student_id \in studentIds
                                         /\ r.status \in {"present", "late"}})
          ELSE 0
      totalPossibleRecords ==
        totalStudents * (IF uniqueDates = {} THEN 1 ELSE Cardinality(uniqueDates))
  IN [className |-> className,
      totalStudents |-> totalStudents,
      attendanceRate |-> IF totalPossibleRecords > 0
                           THEN Rate(presentCount * 100, totalPossibleRecords)
                           ELSE Rate(100, 1),
      presentCount |-> presentCount]

GetClassSummaries(rows, recs) ==
  {ClassSummaryOf(rows, recs, c) : c \in {row.class : row \in rows}}

(* ----------------- aggregation: attendance (in memory) ----------------- *)
\* getClassSummaries of attendance.ts, over the students and records it is given
LocalClassSummaryOf(studs, recs, className) ==
  LET inClass == {st \in studs : st.class = className}
      studentIds == {st.id : st \in inClass}
      presentCount ==
        Cardinality({r \in recs : r.student_id \in studentIds
                                  /\ r.status \in {"present", "late"}})
      dates == {r.date : r \in recs}
      totalPossibleRecords ==
        Cardinality(inClass) * (IF dates = {} THEN 1 ELSE Cardinality(dates))
  IN [className |-> className,
      totalStudents |-> Cardinality(inClass),
      attendanceRate |-> IF totalPossibleRecords > 0
                           THEN Rate(presentCount * 100, totalPossibleRecords)
                           ELSE Rate(100, 1)]

LocalClassSummaries(studs, recs) ==
  {LocalClassSummaryOf(studs, recs, c) : c \in {st.class : st \in studs}}

(* -------------------- aggregation: attendanceSupabase ------------------ *)
\* the Student objects the dashboard builds from rows, deletedAt included
DashboardStudent(row) ==
  [id |-> row.id, class |-> row.class, email |-> row.email,
   contactPhone |-> row.contact_phone, deletedAt |-> row.deleted_at]

ActiveStudentsKeepsDeleted(studs) == studs
ActiveStudents(studs) == {st \in studs : ~Truthy(Field(st, "deletedAt"))}

ActiveStudentIds(studs) == {st.id : st \in ActiveStudents(studs)}

GetTotalAbsences(studs, recs) ==
  Cardinality({r \in recs : r.status = "absent" /\ r.student_id \in ActiveStudentIds(studs)})

GetTotalPresences(studs, recs) ==
  Cardinality({r \in recs : r.status = "present" /\ r.date = Today
                            /\ r.student_id \in ActiveStudentIds(studs)})

GetTodayAttendance(studs, recs) ==
  Cardinality({r \in recs : r.date = Today /\ r.status = "present"
                            /\ r.student_id \in ActiveStudentIds(studs)})

TotalAttendanceOfClass(studs, recs, className) ==
  LET studentsInClass == {st \in ActiveStudents(studs) : st.class = className}
      studentIds == {st.id : st \in studentsInClass}
      mine == {r \in recs : r.student_id \in studentIds}
      presentToday == Cardinality({r \in mine : r.date = Today /\ r.status = "present"})
      totalPresent == Cardinality({r \in mine : r.status = "present"})
      totalRecords == Cardinality(mine)
  IN [className |-> className,
      totalStudents |-> Cardinality(studentsInClass),
      attendanceRate |-> IF totalRecords > 0
                           THEN Rate(totalPresent * 100, totalRecords)
                           ELSE Rate(0, 1),
      presentCount |-> presentToday]

GetTotalAttendanceByClass(studs, recs) ==
  {TotalAttendanceOfClass(studs, recs, c) : c \in {st.class : st \in ActiveStudents(studs)}}

(* ------------------------ checkAttendanceTrends ------------------------ *)
FromDate == Today - WindowDays

\* the rows the per-student query returns: the student's rows dated fromDate..today
WindowRecords(recs, s) ==
  {r \in recs : r.student_id = s /\ r.date >= FromDate /\ r.date <= Today}

\* [...records].sort(newest first)
RECURSIVE SortedRecords(_)
SortedRecords(S) ==
  IF S = {} THEN <<>>
  ELSE LET newest == CHOOSE r \in S : \A q \in S : q.date <= r.date
       IN <<newest>> \o SortedRecords(S \ {newest})

\* the scan of the sorted records: the running count restarts at every record
\* that is not absent, the maximum is kept
RECURSIVE ScanNoReset(_, _, _, _)
ScanNoReset(seq, i, consecutiveAbsences, maxConsecutiveAbsences) ==
  IF i > Len(seq) THEN maxConsecutiveAbsences
  ELSE IF seq[i].status = "absent"
         THEN ScanNoReset(seq, i + 1, consecutiveAbsences + 1,
                          Max(maxConsecutiveAbsences, consecutiveAbsences + 1))
         ELSE ScanNoReset(seq, i + 1, consecutiveAbsences, maxConsecutiveAbsences)

RECURSIVE Scan(_, _, _, _)
Scan(seq, i, consecutiveAbsences, maxConsecutiveAbsences) ==
  IF i > Len(seq) THEN maxConsecutiveAbsences
  ELSE IF seq[i].status = "absent"
         THEN Scan(seq, i + 1, consecutiveAbsences + 1,
                   Max(maxConsecutiveAbsences, consecutiveAbsences + 1))
         ELSE Scan(seq, i + 1, 0, maxConsecutiveAbsences)

\* absenceRate > 20: absences / totalRecords * 100 > 20, exact over the integers
RateOverThreshold(absences, totalRecords) ==
  totalRecords > 0 /\ absences * 100 > RateThreshold * totalRecords

\* shouldNotify: set by the consecutive-absence test, then by the absence-rate test
ShouldNotifyNoMinimum(maxConsecutiveAbsences, absences, totalRecords) ==
  \/ maxConsecutiveAbsences >= ConsecutiveThreshold
  \/ RateOverThreshold(absences, totalRecords)

ShouldNotify(maxConsecutiveAbsences, absences, totalRecords) ==
  \/ maxConsecutiveAbsences >= ConsecutiveThreshold
  \/ RateOverThreshold(absences, totalRecords) /\ totalRecords >= MinRecords

\* the summary pushed for one student
TrendSummary(student, recs) ==
  LET records == WindowRecords(recs, student.id)
      totalRecords == Cardinality(records)
      absences == CountStatus(records, "absent")
      sortedRecords == SortedRecords(records)
      maxConsecutiveAbsences == Scan(sortedRecords, 1, 0, 0)
  IN [date |-> Today,
      studentId |-> student.id,
      absenceRate |-> IF totalRecords > 0 THEN Rate(absences * 100, totalRecords)
                                          ELSE Rate(0, 1),
      consecutiveAbsences |-> maxConsecutiveAbsences,
      present |-> CountStatus(records, "present"),
      absent |-> absences,
      late |-> CountStatus(records, "late"),
      excused |-> CountStatus(records, "excused"),
      total |-> totalRecords,
      needsAttention |-> ShouldNotify(maxConsecutiveAbsences, absences, totalRecords)]

\* checkAttendanceTrends: one summary per active student; a student whose query
\* returns an error (failing) is skipped
CheckAttendanceTrends(studs, recs, failing) ==
  {TrendSummary(st, recs) : st \in {x \in ActiveStudents(studs) : x.id \notin failing}}

(* ------------------------- specification ------------------------------- *)
NoTrend == [done |-> FALSE, result |-> {}]
NoRequest == [handler |-> "none"]
NoPhoneNumber == [version |-> "none"]
NoCsv == [parsed |-> FALSE, lines |-> <<>>, result |-> {}]
NoneInFlight == <<>>

Init ==
  /\ students = [x \in {} |-> x]
  /\ attendance_records = {}
  /\ attendance_notifications = <<>>
  /\ lastCall = NoCalls
  /\ last = Idle
  /\ trend = NoTrend
  /\ calls = NoneInFlight
  /\ request = NoRequest
  /\ attempts = <<>>
  /\ response = NoRequest
  /\ phoneNumber = NoPhoneNumber
  /\ csv = NoCsv

Next ==
  \/ \E s \in StudentIds, c \in Classes :
       AddStudents(s, c, {}, {}) /\ UNCHANGED <<trendVars, dispatchVars, utilVars, callVars>>
  \/ \E s \in StudentIds : MoveStudentToBin(s) /\ UNCHANGED <<trendVars, dispatchVars, utilVars, callVars>>
  \/ \E s \in StudentIds : RestoreStudent(s) /\ UNCHANGED <<trendVars, dispatchVars, utilVars, callVars>>
  \/ \E s \in StudentIds, o \in {"ok", "attendanceError", "studentError"} :
       DeleteStudent(s, o) /\ UNCHANGED <<trendVars, dispatchVars, utilVars, callVars>>
  \/ ClearStudents /\ UNCHANGED <<trendVars, dispatchVars, utilVars, callVars>>
  \/ \E s \in StudentIds, d \in Dates, st \in Statuses :
       RecordAttendance(s, d, st) /\ UNCHANGED <<trendVars, dispatchVars, utilVars, callVars>>

Spec == Init /\ [][Next]_vars

(* ------------- specification of checkAttendanceTrends alone ----------- *)
\* the dates of one student's window that may carry a record
TrendDates == (Today - MaxLen + 1)..Today

RecordsFrom(s, f) ==
  {[id |-> <<s, d, 1>>, student_id |-> s, date |-> d, status |-> f[d]] :
     d \in {x \in DOMAIN f : f[x] # "none"}}

InitTrends ==
  /\ students = [x \in {1} |-> StudentRow(1, "10A", {}, {})]
  /\ \E f \in [TrendDates -> Statuses \cup {"none"}] :
       attendance_records = RecordsFrom(1, f)
  /\ attendance_notifications = <<>>
  /\ lastCall = NoCalls
  /\ last = Idle
  /\ trend = NoTrend
  /\ calls = NoneInFlight
  /\ request = NoRequest
  /\ attempts = <<>>
  /\ response = NoRequest
  /\ phoneNumber = NoPhoneNumber
  /\ csv = NoCsv

CheckTrends ==
  /\ ~trend.done
  /\ trend' = [done |-> TRUE,
               result |-> CheckAttendanceTrends({DashboardStudent(row) : row \in Rows},
                                                attendance_records, {})]
  /\ UNCHANGED <<storeVars, dispatchVars, utilVars, callVars>>

NextTrends == CheckTrends

SpecTrends == InitTrends /\ [][NextTrends]_vars

(* ------ specification of checkAttendanceTrends at the window's edge ---- *)
\* the dates around fromDate, and today
WindowEdgeDates == ((FromDate - 1)..(FromDate + 1)) \cup {Today}

InitWindow ==
  /\ students = [x \in {1} |-> StudentRow(1, "10A", {}, {})]
  /\ \E f \in [WindowEdgeDates -> Statuses \cup {"none"}] :
       attendance_records = RecordsFrom(1, f)
  /\ attendance_notifications = <<>>
  /\ lastCall = NoCalls
  /\ last = Idle
  /\ trend = NoTrend
  /\ calls = NoneInFlight
  /\ request = NoRequest
  /\ attempts = <<>>
  /\ response = NoRequest
  /\ phoneNumber = NoPhoneNumber
  /\ csv = NoCsv

NextWindow == CheckTrends

SpecWindow == InitWindow /\ [][NextWindow]_vars

(* ------ specification of checkAttendanceTrends with store errors ------- *)
\* the call over the whole roster; failing names the students whose query the
\* store answers with an error. The function has no throw: it returns its list.
CheckTrendsStoreErrors(failing) ==
  /\ ~trend.done
  /\ trend' = [done |-> TRUE,
               result |-> CheckAttendanceTrends({DashboardStudent(row) : row \in Rows},
                                                attendance_records, failing),
               failing |-> failing,
               threw |-> FALSE]
  /\ UNCHANGED <<storeVars, dispatchVars, utilVars, callVars>>

InitTrendErrors ==
  /\ \E ids \in SUBSET StudentIds :
       \E binned \in [ids -> {{}, {Today}}],
          f \in [ids -> [Dates -> {"absent", "present", "none"}]] :
         /\ students = [s \in ids |-> [StudentRow(s, "10A", {}, {}) EXCEPT
                                         !.deleted_at = binned[s]]]
         /\ attendance_records = UNION {RecordsFrom(s, f[s]) : s \in ids}
  /\ attendance_notifications = <<>>
  /\ lastCall = NoCalls
  /\ last = Idle
  /\ trend = NoTrend
  /\ calls = NoneInFlight
  /\ request = NoRequest
  /\ attempts = <<>>
  /\ response = NoRequest
  /\ phoneNumber = NoPhoneNumber
  /\ csv = NoCsv

NextTrendErrors == \E failing \in SUBSET StudentIds : CheckTrendsStoreErrors(failing)

SpecTrendErrors == InitTrendErrors /\ [][NextTrendErrors]_vars

(* ----------------------- notification dispatch ------------------------- *)
\* The send helpers stand for the calls to the messaging provider. A send either
\* returns or throws (the helpers catch and rethrow, the handlers catch around
\* each call); which of the two is an input of the request: request.smsFail and
\* request.emailFail name the students for whom a send on that channel throws.
\* In the sms/email revisions the body of a helper only writes the message to
\* the console where the provider call belongs; the WhatsApp revisions call the
\* provider and throw on its rejection.
NotificationTypes == {"sms", "whatsapp", "email"}
LogOutcomes == {"ok", "error", "throws"}

\* message || defaultMessage
DefaultMessage(student) == [kind |-> "default", student |-> student.id]
CustomMessage == [kind |-> "custom", student |-> 0]
NotificationMessage(student, message) ==
  IF Truthy(message) THEN CustomMessage ELSE DefaultMessage(student)

Attempt(s, channel, ok) == [student |-> s, channel |-> channel, ok |-> ok]

\* the row an insert into attendance_notifications carries
LogRow(s, channel, msg, success) ==
  [student_id |-> s, notification_type |-> channel, message |-> msg, success |-> success]

\* from("students").select("*").in("id", ids).is("deleted_at", null)
FetchActive(ids) == {row \in Rows : row.id \in ids /\ ~Truthy(row.deleted_at)}

\* the phone number as the students table stores it (column contact_phone), and
\* as the handlers of the sms/email revision read it from the fetched row
ContactPhoneColumn(student) == Field(student, "contact_phone")
ContactPhone(student) == Field(student, "contactPhone")

\* one student's dispatch, as both handlers of the sms/email revision decide it:
\* kind is "noContact" when nothing is attempted, "sent" or "failed" otherwise
Outcome(kind, sends, success, channel, msg) ==
  [kind |-> kind, sends |-> sends, success |-> success, channel |-> channel,
   message |-> msg]

\* send-absence-notification, channel selection: SMS when requested and a phone is
\* there, else email when an address is there, else the 400 response; the channel
\* starts as the requested type and becomes "email" once the email send returned
SingleDispatchNoFallback(student, type, message, smsOk, emailOk) ==
  LET msg == NotificationMessage(student, message)
  IN IF type = "sms" /\ Truthy(ContactPhone(student))
       THEN Outcome(IF smsOk THEN "sent" ELSE "failed",
                    <<Attempt(student.id, "sms", smsOk)>>, smsOk, type, msg)
     ELSE IF type = "email" /\ Truthy(student.email)
       THEN Outcome(IF emailOk THEN "sent" ELSE "failed",
                    <<Attempt(student.id, "email", emailOk)>>, emailOk,
                    IF emailOk THEN "email" ELSE type, msg)
     ELSE Outcome("noContact", <<>>, FALSE, type, msg)

SingleDispatch(student, type, message, smsOk, emailOk) ==
  LET msg == NotificationMessage(student, message)
  IN IF type = "sms" /\ Truthy(ContactPhone(student))
       THEN Outcome(IF smsOk THEN "sent" ELSE "failed",
                    <<Attempt(student.id, "sms", smsOk)>>, smsOk, type, msg)
     ELSE IF Truthy(student.email)
       THEN Outcome(IF emailOk THEN "sent" ELSE "failed",
                    <<Attempt(student.id, "email", emailOk)>>, emailOk,
                    IF emailOk THEN "email" ELSE type, msg)
     ELSE Outcome("noContact", <<>>, FALSE, type, msg)

\* send-bulk-notifications, loop body: SMS first when canSendSms, email as the
\* fallback of a failed SMS or as the only channel; usedChannel stays "none"
\* unless a send returned
BulkDispatch(student, type, message, smsOk, emailOk) ==
  LET msg == NotificationMessage(student, message)
      canSendSms == type = "sms" /\ Truthy(ContactPhone(student))
      canSendEmail == Truthy(student.email)
      sms == Attempt(student.id, "sms", smsOk)
      email == Attempt(student.id, "email", emailOk)
  IN IF ~canSendSms /\ ~canSendEmail
       THEN Outcome("noContact", <<>>, FALSE, "none", msg)
     ELSE IF canSendSms
       THEN IF smsOk THEN Outcome("sent", <<sms>>, TRUE, "sms", msg)
            ELSE IF canSendEmail
              THEN Outcome(IF emailOk THEN "sent" ELSE "failed", <<sms, email>>, emailOk,
                           IF emailOk THEN "email" ELSE "none", msg)
              ELSE Outcome("failed", <<sms>>, FALSE, "none", msg)
     ELSE Outcome(IF emailOk THEN "sent" ELSE "failed", <<email>>, emailOk,
                  IF emailOk THEN "email" ELSE "none", msg)

\* an insert into attendance_notifications and what the store answered
Insert(row, outcome) == [row |-> row, outcome |-> outcome]

\* what a handler reports about one student
Detail(s, o) ==
  [studentId |-> s, success |-> o.success, channel |-> o.channel, kind |-> o.kind]

NoCounts == [success |-> 0, failed |-> 0, noContact |-> 0, smsCount |-> 0, emailCount |-> 0]

Response(status, success, counts, details) ==
  [status |-> status, success |-> success, counts |-> counts, details |-> details]

Request(handler, ids, type, message, smsFail, emailFail, log) ==
  [handler |-> handler, ids |-> ids, type |-> type, message |-> message,
   smsFail |-> smsFail, emailFail |-> emailFail, log |-> log]

\* the log insert of the handlers: made after the sends, its error only logged
\* (console.warn on logError and in the catch), so the handler carries on with
\* the outcome the sends determined
AfterLogSurfacesFailure(o, log) ==
  IF log = "ok" THEN o ELSE [o EXCEPT !.success = FALSE, !.kind = "failed"]

AfterLog(o, log) == o

LogInserts(s, o, log) == <<Insert(LogRow(s, o.channel, o.message, o.success), log)>>

\* send-absence-notification (sms/email revision): one student
SendAbsenceNotification(studentId, type, message, smsFail, emailFail, log) ==
  /\ request = NoRequest
  /\ request' = Request("single", {studentId}, type, message, smsFail, emailFail, log)
  /\ IF FetchActive({studentId}) = {}
       THEN \* .single() finds no row: 400, "Failed to fetch student details"
            /\ attempts' = <<>>
            /\ attendance_notifications' = <<>>
            /\ response' = Response(400, FALSE, NoCounts, <<>>)
       ELSE LET student == CHOOSE row \in FetchActive({studentId}) : TRUE
                o == SingleDispatch(student, type, message,
                                    studentId \notin smsFail, studentId \notin emailFail)
            IN IF o.kind = "noContact"
                 THEN /\ attempts' = <<>>
                      /\ attendance_notifications' = <<>>
                      /\ response' = Response(400, FALSE, NoCounts, <<Detail(studentId, o)>>)
                 ELSE /\ attempts' = o.sends
                      /\ attendance_notifications' = LogInserts(studentId, o, log)
                      /\ response' = Response(IF AfterLog(o, log).success THEN 200 ELSE 500,
                                              AfterLog(o, log).success, NoCounts,
                                              <<Detail(studentId, AfterLog(o, log))>>)
  /\ UNCHANGED <<storeVars, trendVars, utilVars, callVars>>

\* send-absence-notification (email-only revision): a failed send returns the 500
\* response at once, before the log insert
SendAbsenceNotificationEmailOnly(studentId, message, emailFail, log) ==
  /\ request = NoRequest
  /\ request' = Request("emailOnly", {studentId}, "email", message, {}, emailFail, log)
  /\ IF FetchActive({studentId}) = {}
       THEN /\ attempts' = <<>>
            /\ attendance_notifications' = <<>>
            /\ response' = Response(400, FALSE, NoCounts, <<>>)
       ELSE LET student == CHOOSE row \in FetchActive({studentId}) : TRUE
                msg == NotificationMessage(student, message)
                ok == studentId \notin emailFail
            IN IF ~Truthy(student.email)
                 THEN /\ attempts' = <<>>
                      /\ attendance_notifications' = <<>>
                      /\ response' = Response(400, FALSE, NoCounts,
                           <<Detail(studentId, Outcome("noContact", <<>>, FALSE, "none", msg))>>)
                 ELSE /\ attempts' = <<Attempt(studentId, "email", ok)>>
                      /\ attendance_notifications' =
                           IF ok THEN <<Insert(LogRow(studentId, "email", msg, TRUE), log)>>
                                 ELSE <<>>
                      /\ response' =
                           IF ok
                             THEN LET o == AfterLog(Outcome("sent", <<>>, TRUE, "email", msg),
                                                    log)
                                  IN Response(IF o.success THEN 200 ELSE 500, o.success,
                                              NoCounts, <<Detail(studentId, o)>>)
                             ELSE Response(500, FALSE, NoCounts,
                                    <<Detail(studentId,
                                             Outcome("failed", <<>>, FALSE, "none", msg))>>)
  /\ UNCHANGED <<storeVars, trendVars, utilVars, callVars>>

\* the rows of a set of students in the order the loop visits them (by id)
RECURSIVE InOrder(_)
InOrder(S) ==
  IF S = {} THEN <<>>
  ELSE LET first == CHOOSE row \in S : \A other \in S : row.id <= other.id
       IN <<first>> \o InOrder(S \ {first})

\* a loop that gives up at the first student whose dispatch fails
RECURSIVE BulkLoopAborts(_, _, _, _, _, _, _, _)
BulkLoopAborts(list, i, type, message, smsFail, emailFail, log, results) ==
  IF i > Len(list) THEN results
  ELSE LET student == list[i]
           o == BulkDispatch(student, type, message,
                             student.id \notin smsFail, student.id \notin emailFail)
       IN IF ~o.success THEN results
          ELSE BulkLoopAborts(list, i + 1, type, message, smsFail, emailFail, log,
                 [results EXCEPT
                    !.sends = @ \o o.sends,
                    !.inserts = @ \o LogInserts(student.id, o, log),
                    !.counts.success = @ + 1,
                    !.details = Append(@, Detail(student.id, o))])

\* send-bulk-notifications (sms/email revision): the loop over the fetched students
RECURSIVE BulkLoop(_, _, _, _, _, _, _, _)
BulkLoop(list, i, type, message, smsFail, emailFail, log, results) ==
  IF i > Len(list) THEN results
  ELSE LET student == list[i]
           o == BulkDispatch(student, type, message,
                             student.id \notin smsFail, student.id \notin emailFail)
           c == results.counts
           logged == AfterLog(o, log)
       IN BulkLoop(list, i + 1, type, message, smsFail, emailFail, log,
            IF o.kind = "noContact"
              THEN [results EXCEPT
                      !.counts.noContact = c.noContact + 1,
                      !.details = Append(results.details, Detail(student.id, o))]
              ELSE [sends |-> results.sends \o o.sends,
                    inserts |-> results.inserts \o LogInserts(student.id, o, log),
                    counts |->
                      [success |-> c.success + (IF logged.success THEN 1 ELSE 0),
                       failed |-> c.failed + (IF logged.success THEN 0 ELSE 1),
                       noContact |-> c.noContact,
                       smsCount |-> c.smsCount + (IF o.channel = "sms" THEN 1 ELSE 0),
                       emailCount |-> c.emailCount + (IF o.channel = "email" THEN 1 ELSE 0)],
                    details |-> Append(results.details, Detail(student.id, logged))])

SendBulkNotifications(studentIds, type, message, smsFail, emailFail, log) ==
  /\ request = NoRequest
  /\ request' = Request("bulk", studentIds, type, message, smsFail, emailFail, log)
  /\ IF studentIds = {}
       THEN \* 400, "No student IDs provided"
            /\ attempts' = <<>>
            /\ attendance_notifications' = <<>>
            /\ response' = Response(400, FALSE, NoCounts, <<>>)
       ELSE LET results ==
                  BulkLoop(InOrder(FetchActive(studentIds)), 1, type, message,
                           smsFail, emailFail, log,
                           [sends |-> <<>>, inserts |-> <<>>, counts |-> NoCounts,
                            details |-> <<>>])
            IN /\ attempts' = results.sends
               /\ attendance_notifications' = results.inserts
               /\ response' = Response(200, results.counts.success > 0, results.counts,
                                       results.details)
  /\ UNCHANGED <<storeVars, trendVars, utilVars, callVars>>

\* notificationService.sendStudentNotification: the channel falls back to the one
\* the student has contact information for; without any, the thrown error is
\* caught, a failed notification is logged and false is returned. The send itself
\* is only written to the console.
ClientChannel(student, type) ==
  IF type = "sms" /\ ~Truthy(student.contactPhone)
    THEN IF Truthy(student.email) THEN "email" ELSE "throw"
  ELSE IF type = "email" /\ ~Truthy(student.email)
    THEN IF Truthy(student.contactPhone) THEN "sms" ELSE "throw"
  ELSE type

SendStudentNotification(student, type, log) ==
  LET channel == ClientChannel(student, type)
      o == IF channel = "throw"
             THEN Outcome("noContact", <<>>, FALSE, type, CustomMessage)
             ELSE Outcome("sent", <<Attempt(student.id, channel, TRUE)>>, TRUE, channel,
                          CustomMessage)
  IN /\ type \in {"sms", "email"}
     /\ request = NoRequest
     /\ request' = Request("client", {student.id}, type, {"text"}, {}, {}, log)
     /\ attempts' = o.sends
     /\ attendance_notifications' =
          <<Insert(LogRow(student.id, o.channel, CustomMessage, o.success), log)>>
     /\ response' = Response(0, AfterLog(o, log).success, NoCounts,
                             <<Detail(student.id, AfterLog(o, log))>>)
     /\ UNCHANGED <<storeVars, trendVars, utilVars, callVars>>

\* send-bulk-notifications (WhatsApp revision), loop body: a student without a
\* phone number is counted under noPhone (counts.noContact here); WhatsApp goes
\* to the provider, any other type is a simulated success; the log row carries
\* the requested type
WhatsAppDispatch(student, type, message, whatsappOk) ==
  LET msg == NotificationMessage(student, message)
      ok == type # "whatsapp" \/ whatsappOk
  IN IF ~Truthy(ContactPhoneColumn(student))
       THEN Outcome("noContact", <<>>, FALSE, "none", msg)
       ELSE Outcome(IF ok THEN "sent" ELSE "failed", <<Attempt(student.id, type, ok)>>,
                    ok, type, msg)

\* a tally that loses the students without a phone number
TallyForgetsNoPhone(c, o) ==
  IF o.kind = "noContact" THEN c
  ELSE IF o.success THEN [c EXCEPT !.success = @ + 1]
  ELSE [c EXCEPT !.failed = @ + 1]

\* results.noPhone++, results.success++ or results.failed++
Tally(c, o) ==
  IF o.kind = "noContact" THEN [c EXCEPT !.noContact = @ + 1]
  ELSE IF o.success THEN [c EXCEPT !.success = @ + 1]
  ELSE [c EXCEPT !.failed = @ + 1]

RECURSIVE WhatsAppLoop(_, _, _, _, _, _, _)
WhatsAppLoop(list, i, type, message, whatsappFail, log, results) ==
  IF i > Len(list) THEN results
  ELSE LET student == list[i]
           o == WhatsAppDispatch(student, type, message, student.id \notin whatsappFail)
           logged == AfterLog(o, log)
       IN WhatsAppLoop(list, i + 1, type, message, whatsappFail, log,
            IF o.kind = "noContact"
              THEN [results EXCEPT
                      !.counts = Tally(@, o),
                      !.details = Append(@, Detail(student.id, o))]
              ELSE [sends |-> results.sends \o o.sends,
                    inserts |-> results.inserts \o LogInserts(student.id, o, log),
                    counts |-> Tally(results.counts, logged),
                    details |-> Append(results.details, Detail(student.id, logged))])

\* send-bulk-notifications (WhatsApp revision). twilio tells whether the Twilio
\* credentials are configured; whatsappFail (kept in the request's smsFail) names
\* the students for whom the provider rejects the WhatsApp message.
SendBulkNotificationsWhatsApp(studentIds, type, message, whatsappFail, log, twilio) ==
  /\ request = NoRequest
  /\ request' = [handler |-> "bulkWhatsApp", ids |-> studentIds, type |-> type,
                 message |-> message, smsFail |-> whatsappFail, emailFail |-> {},
                 log |-> log, twilio |-> twilio]
  /\ IF studentIds = {} \/ (type = "whatsapp" /\ ~twilio)
       THEN \* 400, "No student IDs provided"; 500, "Missing Twilio credentials"
            /\ attempts' = <<>>
            /\ attendance_notifications' = <<>>
            /\ response' = Response(IF studentIds = {} THEN 400 ELSE 500, FALSE, NoCounts,
                                    <<>>)
       ELSE LET results ==
                  WhatsAppLoop(InOrder(FetchActive(studentIds)), 1, type, message,
                               whatsappFail, log,
                               [sends |-> <<>>, inserts |-> <<>>, counts |-> NoCounts,
                                details |-> <<>>])
            IN /\ attempts' = results.sends
               /\ attendance_notifications' = results.inserts
               /\ response' = Response(200, results.counts.success > 0, results.counts,
                                       results.details)
  /\ UNCHANGED <<storeVars, trendVars, utilVars, callVars>>

\* one student of notificationService.sendBulkNotifications: what
\* sendStudentNotification sends, logs and resolves to
ClientOutcome(student, type) ==
  IF ClientChannel(student, type) = "throw"
    THEN Outcome("noContact", <<>>, FALSE, type, CustomMessage)
    ELSE Outcome("sent", <<Attempt(student.id, ClientChannel(student, type), TRUE)>>, TRUE,
                 ClientChannel(student, type), CustomMessage)

\* notificationService.sendBulkNotifications: the batches of five, each student's
\* promise counted into success or failed. The function returns the two counts
\* only; status and success of the response have no counterpart in it.
RECURSIVE ClientBulkLoop(_, _, _, _, _)
ClientBulkLoop(list, i, type, log, results) ==
  IF i > Len(list) THEN results
  ELSE LET student == StudentOfRow(list[i])
           o == ClientOutcome(student, type)
           logged == AfterLog(o, log)
           c == results.counts
       IN ClientBulkLoop(list, i + 1, type, log,
            [sends |-> results.sends \o o.sends,
             inserts |-> results.inserts \o LogInserts(student.id, o, log),
             counts |-> [c EXCEPT !.success = @ + (IF logged.success THEN 1 ELSE 0),
                                  !.failed = @ + (IF logged.success THEN 0 ELSE 1)],
             details |-> Append(results.details, Detail(student.id, logged))])

SendBulkNotificationsClient(rows, type, log) ==
  LET results == ClientBulkLoop(InOrder(rows), 1, type, log,
                                [sends |-> <<>>, inserts |-> <<>>, counts |-> NoCounts,
                                 details |-> <<>>])
  IN /\ request = NoRequest
     /\ request' = Request("clientBulk", {row.id : row \in rows}, type, {"text"}, {}, {}, log)
     /\ attempts' = results.sends
     /\ attendance_notifications' = results.inserts
     /\ response' = Response(0, results.counts.success > 0, results.counts, results.details)
     /\ UNCHANGED <<storeVars, trendVars, utilVars, callVars>>

(* ------------------ specification of the dispatchers ------------------- *)
\* A behaviour follows one invocation of one dispatcher from a students table
\* it finds: the invocations share nothing but that table, which none writes.
Phones == {{}, {"52341234"}}
Emails == {{}, {"parent@example.org"}}

InitDispatch ==
  /\ \E ids \in SUBSET StudentIds :
       \E contact \in [ids -> Phones \X Emails \X {{}, {Today}}] :
         students = [s \in ids |->
                       [id |-> s, class |-> "10A", contact_phone |-> contact[s][1],
                        email |-> contact[s][2], deleted_at |-> contact[s][3]]]
  /\ attendance_records = {}
  /\ attendance_notifications = <<>>
  /\ lastCall = NoCalls
  /\ last = Idle
  /\ trend = NoTrend
  /\ calls = NoneInFlight
  /\ request = NoRequest
  /\ attempts = <<>>
  /\ response = NoRequest
  /\ phoneNumber = NoPhoneNumber
  /\ csv = NoCsv

NextDispatch ==
  \/ \E s \in StudentIds, type \in NotificationTypes, message \in {{}, {"text"}},
        log \in LogOutcomes :
       \E smsFail \in SUBSET {s}, emailFail \in SUBSET {s} :
         SendAbsenceNotification(s, type, message, smsFail, emailFail, log)
  \/ \E s \in StudentIds, message \in {{}, {"text"}}, log \in LogOutcomes :
       \E emailFail \in SUBSET {s} :
         SendAbsenceNotificationEmailOnly(s, message, emailFail, log)
  \/ \E ids \in SUBSET StudentIds, type \in NotificationTypes, message \in {{}, {"text"}},
        log \in LogOutcomes :
       \E smsFail \in SUBSET ids, emailFail \in SUBSET ids :
         SendBulkNotifications(ids, type, message, smsFail, emailFail, log)
  \/ \E row \in Rows, type \in {"sms", "email"}, log \in LogOutcomes :
       SendStudentNotification(StudentOfRow(row), type, log)
  \/ \E rows \in SUBSET Rows, type \in {"sms", "email"}, log \in LogOutcomes :
       SendBulkNotificationsClient(rows, type, log)
  \/ \E ids \in SUBSET StudentIds, type \in NotificationTypes, message \in {{}, {"text"}},
        log \in LogOutcomes, twilio \in BOOLEAN :
       \E whatsappFail \in SUBSET ids :
         SendBulkNotificationsWhatsApp(ids, type, message, whatsappFail, log, twilio)

SpecDispatch == InitDispatch /\ [][NextDispatch]_vars

(* ------- notificationService.sendBulkNotifications, calls in flight ---- *)
\* The event loop runs one continuation at a time. A sendStudentNotification call
\* runs from its start to its first await, the insert of logNotification, when
\* the batch is mapped; it is in flight until the store answers that insert.
\* The answer resumes logNotification, the call returns and the .then callback
\* counts it, all before the next answer is handled. calls holds the list, the
\* loop variable i, the calls in flight (positions in the list) and the counts;
\* calls.counted is history: how often each position was counted.
NoResults == [success |-> 0, failed |-> 0]

\* .then(success => { if (success) results.success++ else results.failed++ })
CountResultSuccessOnly(results, success) ==
  IF success THEN [results EXCEPT !.success = @ + 1] ELSE results

CountResult(results, success) ==
  IF success THEN [results EXCEPT !.success = @ + 1]
  ELSE [results EXCEPT !.failed = @ + 1]

Min(a, b) == IF a <= b THEN a ELSE b

\* students.slice(i, i + batchSize), as positions in the list
BatchAt(i, n) == (i + 1)..Min(i + BatchSize, n)

\* batch.map(student => sendStudentNotification(...).then(...).catch(...)): every
\* call of the batch starts; the simulated sends are written to the console
BulkStartBatch ==
  /\ calls.pc = "loop"
  /\ calls.i < Len(calls.list)
  /\ LET batch == BatchAt(calls.i, Len(calls.list))
         sent(k) == ClientOutcome(calls.list[k], calls.type).sends
         RECURSIVE Sends(_)
         Sends(k) == IF k > Min(calls.i + BatchSize, Len(calls.list)) THEN <<>>
                     ELSE sent(k) \o Sends(k + 1)
     IN /\ calls' = [calls EXCEPT !.pc = "awaiting", !.inFlight = @ \cup batch]
        /\ attempts' = attempts \o Sends(calls.i + 1)
  /\ UNCHANGED <<storeVars, trendVars, utilVars, attendance_notifications, request, response>>

\* the store answers the insert of the call at position k: the call returns and
\* its callback counts it
BulkLogSettles(k) ==
  LET student == calls.list[k]
      o == ClientOutcome(student, calls.type)
  IN /\ k \in calls.inFlight
     /\ attendance_notifications' =
          attendance_notifications \o LogInserts(student.id, o, calls.log)
     /\ calls' = [calls EXCEPT
                    !.inFlight = @ \ {k},
                    !.results = CountResult(@, AfterLog(o, calls.log).success),
                    !.counted[k] = @ + 1]
     /\ UNCHANGED <<storeVars, trendVars, utilVars, request, attempts, response>>

\* a loop that goes on to the next batch without awaiting the promises
BulkBatchDoneNoAwait ==
  /\ calls.pc = "awaiting"
  /\ calls' = [calls EXCEPT !.pc = "loop", !.i = @ + BatchSize]
  /\ UNCHANGED <<storeVars, trendVars, utilVars, dispatchVars>>

\* await Promise.all(batchPromises) resumes once every call of the batch is
\* counted; i += batchSize
BulkBatchDone ==
  /\ calls.pc = "awaiting"
  /\ calls.inFlight = {}
  /\ calls' = [calls EXCEPT !.pc = "loop", !.i = @ + BatchSize]
  /\ UNCHANGED <<storeVars, trendVars, utilVars, dispatchVars>>

\* the loop condition fails: return results
BulkReturn ==
  /\ calls.pc = "loop"
  /\ calls.i >= Len(calls.list)
  /\ calls' = [calls EXCEPT !.pc = "returned"]
  /\ response' = calls.results
  /\ UNCHANGED <<storeVars, trendVars, utilVars, attendance_notifications, request, attempts>>

\* a list of n students, at most one of them without any contact
InitBulk ==
  /\ \E n \in 0..MaxBatchStudents :
       \E without \in {{}} \cup {{k} : k \in 1..n},
          type \in {"sms", "email"}, log \in LogOutcomes :
         /\ students = [k \in 1..n |->
                          StudentRow(k, "10A", {},
                                     IF k \in without THEN {} ELSE {"parent@example.org"})]
         /\ calls = [pc |-> "loop", i |-> 0,
                     list |-> [k \in 1..n |-> StudentOfRow(students[k])],
                     type |-> type, log |-> log, inFlight |-> {},
                     results |-> NoResults, counted |-> [k \in 1..n |-> 0]]
  /\ attendance_records = {}
  /\ attendance_notifications = <<>>
  /\ lastCall = NoCalls
  /\ last = Idle
  /\ trend = NoTrend
  /\ request = NoRequest
  /\ attempts = <<>>
  /\ response = NoRequest
  /\ phoneNumber = NoPhoneNumber
  /\ csv = NoCsv

NextBulk ==
  \/ BulkStartBatch
  \/ \E k \in 1..MaxBatchStudents : BulkLogSettles(k)
  \/ BulkBatchDone
  \/ BulkReturn

SpecBulk == InitBulk /\ [][NextBulk]_vars

\* the event loop runs a continuation that is ready, and the store answers every
\* insert with a result or an error
SpecBulkFair == SpecBulk /\ WF_vars(NextBulk)

(* ------------- recordAttendance and deleteStudent, interleaved --------- *)
\* Each store request of a call (an await in the source) is one step; between two
\* steps of a call the steps of the other calls may run. A call is at the request
\* it issues next: recordAttendance at "lookup" (the student), "check" (the rows of
\* the student and date) and "write" (update or insert); deleteStudent at
\* "deleteRecords" and "deleteStudent".
Callers == 1..MaxCallers
RaceStatuses == {"present", "absent"}

Call(op, s, d, st, pc, found, between) ==
  [op |-> op, student |-> s, date |-> d, status |-> st, pc |-> pc, found |-> found,
   between |-> between]
IdleCall == Call("none", 0, 0, "none", "idle", {}, FALSE)
Running == {"lookup", "check", "write", "deleteRecords", "deleteStudent"}

StartRecordAttendance(c, s, d, st) ==
  /\ calls[c].pc = "idle"
  /\ calls' = [calls EXCEPT ![c] = Call("recordAttendance", s, d, st, "lookup", {}, FALSE)]
  /\ UNCHANGED <<storeVars, trendVars, dispatchVars, utilVars>>

\* from("students").select("id").eq("id", studentId).single(): an error without a row
FindStudent(c) ==
  /\ calls[c].pc = "lookup"
  /\ IF calls[c].student \in DOMAIN students
       THEN /\ calls' = [calls EXCEPT ![c].pc = "check"]
            /\ UNCHANGED last
       ELSE /\ calls' = [calls EXCEPT ![c].pc = "failed"]
            /\ last' = Done("recordAttendance", calls[c].student, FALSE, 0)
  /\ UNCHANGED <<students, attendance_records, lastCall, trendVars, dispatchVars, utilVars>>

\* the existence check: the ids of the rows of (student, date) at this moment
CheckExisting(c) ==
  /\ calls[c].pc = "check"
  /\ calls' = [calls EXCEPT ![c].pc = "write",
                            ![c].found = {r.id : r \in Existing(calls[c].student, calls[c].date)}]
  /\ UNCHANGED <<storeVars, trendVars, dispatchVars, utilVars>>

\* the delete of the student's attendance rows has run, the delete of its row has not
MidDelete(s) ==
  \E c \in Callers : calls[c].op = "deleteStudent" /\ calls[c].student = s
                     /\ calls[c].pc = "deleteStudent"

\* update of existingData[0] when the check found rows (.single() fails when the
\* row is gone), insert otherwise
WriteRecord(c) ==
  LET s == calls[c].student
      d == calls[c].date
      row(id) == [id |-> id, student_id |-> s, date |-> d, status |-> calls[c].status]
  IN /\ calls[c].pc = "write"
     /\ IF calls[c].found # {}
          THEN \E id \in calls[c].found :
                 IF \E r \in attendance_records : r.id = id
                   THEN /\ attendance_records' =
                             {r \in attendance_records : r.id # id} \cup {row(id)}
                        /\ lastCall' = [lastCall EXCEPT ![<<s, d>>] = calls[c].status]
                        /\ calls' = [calls EXCEPT ![c].pc = "done"]
                        /\ last' = Done("recordAttendance", s, TRUE,
                                        Cardinality(calls[c].found))
                   ELSE /\ calls' = [calls EXCEPT ![c].pc = "failed"]
                        /\ last' = Done("recordAttendance", s, FALSE,
                                        Cardinality(calls[c].found))
                        /\ UNCHANGED <<attendance_records, lastCall>>
          ELSE /\ attendance_records' = attendance_records \cup {row(FreshId(s, d))}
               /\ lastCall' = [lastCall EXCEPT ![<<s, d>>] = calls[c].status]
               /\ calls' = [calls EXCEPT ![c].pc = "done", ![c].between = MidDelete(s)]
               /\ last' = Done("recordAttendance", s, TRUE, 0)
     /\ UNCHANGED <<students, trendVars, dispatchVars, utilVars>>

StartDeleteStudent(c, s) ==
  /\ calls[c].pc = "idle"
  /\ calls' = [calls EXCEPT ![c] = Call("deleteStudent", s, 0, "none", "deleteRecords", {}, FALSE)]
  /\ UNCHANGED <<storeVars, trendVars, dispatchVars, utilVars>>

\* from("attendance_records").delete().eq("student_id", studentId)
DeleteRecords(c) ==
  /\ calls[c].pc = "deleteRecords"
  /\ attendance_records' = attendance_records \ DeleteStudentRemoves(calls[c].student)
  /\ lastCall' = [k \in StudentIds \X Dates |->
                    IF k[1] = calls[c].student THEN "none" ELSE lastCall[k]]
  /\ calls' = [calls EXCEPT ![c].pc = "deleteStudent"]
  /\ UNCHANGED <<students, last, trendVars, dispatchVars, utilVars>>

\* from("students").delete().eq("id", studentId)
DeleteStudentRow(c) ==
  /\ calls[c].pc = "deleteStudent"
  /\ students' = [x \in DOMAIN students \ {calls[c].student} |-> students[x]]
  /\ calls' = [calls EXCEPT ![c].pc = "done"]
  /\ last' = Done("deleteStudent", calls[c].student, TRUE, 0)
  /\ UNCHANGED <<attendance_records, lastCall, trendVars, dispatchVars, utilVars>>

\* the store answers the request of a call with an error: the call throws
StoreError(c) ==
  /\ calls[c].pc \in Running
  /\ calls' = [calls EXCEPT ![c].pc = "failed"]
  /\ last' = Done(calls[c].op, calls[c].student, FALSE, 0)
  /\ UNCHANGED <<students, attendance_records, lastCall, trendVars, dispatchVars, utilVars>>

InitRace ==
  /\ students = [s \in StudentIds |-> StudentRow(s, "10A", {}, {})]
  /\ attendance_records = {}
  /\ attendance_notifications = <<>>
  /\ lastCall = NoCalls
  /\ last = Idle
  /\ trend = NoTrend
  /\ calls = [c \in Callers |-> IdleCall]
  /\ request = NoRequest
  /\ attempts = <<>>
  /\ response = NoRequest
  /\ phoneNumber = NoPhoneNumber
  /\ csv = NoCsv

NextRace ==
  \E c \in Callers :
    \/ \E s \in StudentIds, d \in Dates, st \in RaceStatuses : StartRecordAttendance(c, s, d, st)
    \/ FindStudent(c)
    \/ CheckExisting(c)
    \/ WriteRecord(c)
    \/ \E s \in StudentIds : StartDeleteStudent(c, s)
    \/ DeleteRecords(c)
    \/ DeleteStudentRow(c)
    \/ StoreError(c)

SpecRace == InitRace /\ [][NextRace]_vars

(* --------------------------- retention sweep --------------------------- *)
NoFailure == [student |-> 0, step |-> "none"]
SweepFailures ==
  {NoFailure, [student |-> 0, step |-> "select"]}
    \cup {[student |-> s, step |-> step] : s \in StudentIds, step \in {"attendance", "student"}}

RECURSIVE IdsInOrder(_)
IdsInOrder(S) ==
  IF S = {} THEN <<>>
  ELSE LET first == CHOOSE s \in S : \A other \in S : s <= other
       IN <<first>> \o IdsInOrder(S \ {first})

\* the students whose deleted_at is more than days old
Expired(studs, days) ==
  {s \in DOMAIN studs : \E d \in studs[s].deleted_at : d < Today - days}

\* the hard deletes of the sweep, one deleteStudent per expired student: its
\* attendance rows first, then its row; a store error ends the sweep there
RECURSIVE SweepLoop(_, _, _, _, _)
SweepLoop(ids, i, studs, recs, fail) ==
  IF i > Len(ids) THEN [students |-> studs, records |-> recs, ok |-> TRUE]
  ELSE IF fail = [student |-> ids[i], step |-> "attendance"]
    THEN [students |-> studs, records |-> recs, ok |-> FALSE]
  ELSE IF fail = [student |-> ids[i], step |-> "student"]
    THEN [students |-> studs, records |-> recs \ DeleteStudentRemoves(ids[i]), ok |-> FALSE]
  ELSE SweepLoop(ids, i + 1, [x \in DOMAIN studs \ {ids[i]} |-> studs[x]],
                 recs \ DeleteStudentRemoves(ids[i]), fail)

\* cleanupDeletedStudents(olderThanDays)
CleanupDeletedStudents(olderThanDays, fail) ==
  IF fail.step = "select"
    THEN [students |-> students, records |-> attendance_records, ok |-> FALSE]
    ELSE SweepLoop(IdsInOrder(Expired(students, olderThanDays)), 1, students,
                   attendance_records, fail)

\* the sweep run with a threshold one day short
RunDailyCleanupOneDayEarly(fail) ==
  LET swept == CleanupDeletedStudents(RetentionDays - 1, fail)
  IN /\ students' = swept.students
     /\ attendance_records' = swept.records
     /\ lastCall' = [k \in StudentIds \X Dates |->
                       IF \E r \in attendance_records \ swept.records : r.student_id = k[1]
                         THEN "none" ELSE lastCall[k]]
     /\ last' = Done("runDailyCleanup", 0, swept.ok,
                     Cardinality(DOMAIN students \ DOMAIN swept.students))
     /\ UNCHANGED <<trendVars, dispatchVars, utilVars, callVars>>

\* runDailyCleanup: the sweep with the 30-day threshold; an error of the sweep is
\* caught and reported as { success: false }
RunDailyCleanup(fail) ==
  LET swept == CleanupDeletedStudents(RetentionDays, fail)
  IN /\ students' = swept.students
     /\ attendance_records' = swept.records
     /\ lastCall' = [k \in StudentIds \X Dates |->
                       IF \E r \in attendance_records \ swept.records : r.student_id = k[1]
                         THEN "none" ELSE lastCall[k]]
     /\ last' = Done("runDailyCleanup", 0, swept.ok,
                     Cardinality(DOMAIN students \ DOMAIN swept.students))
     /\ UNCHANGED <<trendVars, dispatchVars, utilVars, callVars>>

(* -------------------- specification of the sweep ----------------------- *)
BinDays == ((Today - RetentionDays - 1)..(Today - RetentionDays + 1)) \cup {Today}

SweepRecords(s) ==
  {[id |-> <<s, Today, 1>>, student_id |-> s, date |-> Today, status |-> "absent"],
   [id |-> <<s, Today - 1, 1>>, student_id |-> s, date |-> Today - 1, status |-> "present"]}

InitCleanup ==
  /\ \E ids \in SUBSET StudentIds :
       \E binned \in [ids -> {{}} \cup {{d} : d \in BinDays}],
          recs \in [ids -> SUBSET {Today - 1, Today}] :
         /\ students = [s \in ids |-> [StudentRow(s, "10A", {}, {}) EXCEPT
                                         !.deleted_at = binned[s]]]
         /\ attendance_records =
              UNION {{r \in SweepRecords(s) : r.date \in recs[s]} : s \in ids}
  /\ attendance_notifications = <<>>
  /\ lastCall = NoCalls
  /\ last = Idle
  /\ trend = NoTrend
  /\ calls = NoneInFlight
  /\ request = NoRequest
  /\ attempts = <<>>
  /\ response = NoRequest
  /\ phoneNumber = NoPhoneNumber
  /\ csv = NoCsv

NextCleanup == \E fail \in SweepFailures : RunDailyCleanup(fail)

SpecCleanup == InitCleanup /\ [][NextCleanup]_vars

(* -------------------- formatMauritianPhoneNumber ----------------------- *)
\* A string is the sequence of its characters.
DigitChars == {"0", "1", "2", "3", "4", "5", "6", "7", "8", "9"}
PhoneChars == {"0", "2", "3", "5", "+", "-"}
CountryCode == <<"2", "3", "0">>

SeqsUpTo(S, n) == UNION {[1..k -> S] : k \in 0..n}

\* a replace that lets the plus sign through
RECURSIVE DigitsOnlyKeepsPlus(_)
DigitsOnlyKeepsPlus(s) ==
  IF s = <<>> THEN <<>>
  ELSE (IF Head(s) \in DigitChars \cup {"+"} THEN <<Head(s)>> ELSE <<>>)
         \o DigitsOnlyKeepsPlus(Tail(s))

\* phoneNumber.replace(/\D/g, "")
RECURSIVE DigitsOnly(_)
DigitsOnly(s) ==
  IF s = <<>> THEN <<>>
  ELSE (IF Head(s) \in DigitChars THEN <<Head(s)>> ELSE <<>>) \o DigitsOnly(Tail(s))

StartsWith(s, prefix) ==
  Len(s) >= Len(prefix) /\ SubSeq(s, 1, Len(prefix)) = prefix

\* a normalization that prefixes the country code whatever the digits begin with
FormatPrefixesAlways(guarded, phone) ==
  IF guarded /\ phone = <<>> THEN <<>>
  ELSE <<"+">> \o CountryCode \o DigitsOnly(phone)

\* formatMauritianPhoneNumber; guarded tells the copies that begin with
\* `if (!phoneNumber) return ""` from the one in attendance.ts that does not
FormatMauritianPhoneNumber(guarded, phone) ==
  IF guarded /\ phone = <<>> THEN <<>>
  ELSE LET digitsOnly == DigitsOnly(phone)
       IN IF StartsWith(digitsOnly, CountryCode)
            THEN <<"+">> \o digitsOnly
            ELSE <<"+">> \o CountryCode \o digitsOnly

ExamplePhone == <<"5", "2", "3", "4", "1", "2", "3", "4">>

InitPhone ==
  /\ students = <<>>
  /\ attendance_records = {}
  /\ attendance_notifications = <<>>
  /\ lastCall = NoCalls
  /\ last = Idle
  /\ trend = NoTrend
  /\ calls = NoneInFlight
  /\ request = NoRequest
  /\ attempts = <<>>
  /\ response = NoRequest
  /\ \E guarded \in BOOLEAN, input \in SeqsUpTo(PhoneChars, MaxPhoneLen) \cup {ExamplePhone} :
       phoneNumber = [version |-> IF guarded THEN "guarded" ELSE "unguarded",
                      input |-> input, once |-> {}, twice |-> {}]
  /\ csv = NoCsv

\* the number is normalized
FormatPhone ==
  /\ phoneNumber.once = {}
  /\ phoneNumber' =
       [phoneNumber EXCEPT
          !.once = {FormatMauritianPhoneNumber(phoneNumber.version = "guarded",
                                               phoneNumber.input)}]
  /\ UNCHANGED <<storeVars, trendVars, dispatchVars, csv, callVars>>

\* the normalized number is normalized again
FormatPhoneAgain ==
  /\ phoneNumber.once # {}
  /\ phoneNumber.twice = {}
  /\ phoneNumber' =
       [phoneNumber EXCEPT
          !.twice = {FormatMauritianPhoneNumber(phoneNumber.version = "guarded", once) :
                       once \in phoneNumber.once}]
  /\ UNCHANGED <<storeVars, trendVars, dispatchVars, csv, callVars>>

NextPhone == FormatPhone \/ FormatPhoneAgain

SpecPhone == InitPhone /\ [][NextPhone]_vars

(* ------------------------------ parseCSV ------------------------------- *)
\* The content is the sequence of its lines (split on line breaks), a line the
\* sequence of its cells (split on commas). A cell of the header line is a name,
\* a cell of a data line a string of characters.
RequiredHeaders == <<"studentId", "firstName", "lastName", "class", "gradeLevel">>

SeqRange(seq) == {seq[i] : i \in 1..Len(seq)}

WhitespaceChars == {" "}

\* !lines[i].trim(): the line holds nothing but whitespace
IsBlank(line) == Len(line) = 1 /\ \A i \in 1..Len(line[1]) : line[1][i] \in WhitespaceChars

DigitValue(c) == CHOOSE n \in 0..9 : <<"0", "1", "2", "3", "4", "5", "6", "7", "8", "9">>[n + 1] = c

RECURSIVE SkipWhitespace(_)
SkipWhitespace(s) ==
  IF s # <<>> /\ Head(s) \in WhitespaceChars THEN SkipWhitespace(Tail(s)) ELSE s

\* the value of the longest prefix of digits, acc being the value read so far
RECURSIVE LeadingDigits(_, _, _)
LeadingDigits(s, acc, any) ==
  IF s # <<>> /\ Head(s) \in DigitChars
    THEN LeadingDigits(Tail(s), 10 * acc + DigitValue(Head(s)), TRUE)
    ELSE IF any THEN {acc} ELSE {}

\* a conversion that takes a number only when the whole string is digits
ParseIntWholeString(s) ==
  IF s # <<>> /\ \A i \in 1..Len(s) : s[i] \in DigitChars
    THEN LeadingDigits(s, 0, FALSE) ELSE {}

\* parseInt: leading whitespace is skipped, a sign is read, then the digits up to
\* the first other character; NaN ({}) when there is no digit there
ParseInt(s) ==
  LET t == SkipWhitespace(s)
      negative == t # <<>> /\ Head(t) = "-"
      u == IF t # <<>> /\ Head(t) \in {"+", "-"} THEN Tail(t) ELSE t
  IN {IF negative THEN 0 - n ELSE n : n \in LeadingDigits(u, 0, FALSE)}

CsvError(line, kind, names) == [line |-> line, kind |-> kind, names |-> names]

\* headers.forEach((header, index) => student[header] = values[index])
StudentOfLine(headers, values) ==
  [h \in SeqRange(headers) |->
     values[CHOOSE i \in 1..Len(headers) :
              headers[i] = h /\ \A j \in 1..Len(headers) : headers[j] = h => j <= i]]

\* the first required field the student lacks, if any
MissingField(student) ==
  LET missing == SelectSeq(RequiredHeaders, LAMBDA f : student[f] = <<>>)
  IN IF missing = <<>> THEN {} ELSE {Head(missing)}

\* a loop whose validation goes on after the first missing field: one error for
\* each required field the line lacks
RECURSIVE ParseLinesNoBreak(_, _, _, _)
ParseLinesNoBreak(lines, i, imported, errors) ==
  IF i > Len(lines) THEN [students |-> imported, errors |-> errors]
  ELSE IF IsBlank(lines[i]) THEN ParseLinesNoBreak(lines, i + 1, imported, errors)
  ELSE IF Len(lines[i]) # Len(lines[1])
    THEN ParseLinesNoBreak(lines, i + 1, imported,
                           Append(errors, CsvError(i, "fields", <<>>)))
  ELSE LET student == StudentOfLine(lines[1], lines[i])
           gradeLevel == ParseInt(student["gradeLevel"])
           missing == SelectSeq(RequiredHeaders, LAMBDA f : student[f] = <<>>)
       IN IF missing # <<>>
            THEN ParseLinesNoBreak(lines, i + 1, imported,
                   errors \o [k \in 1..Len(missing) |->
                                CsvError(i, "missing", <<missing[k]>>)])
          ELSE IF gradeLevel = {}
            THEN ParseLinesNoBreak(lines, i + 1, imported,
                   Append(errors, CsvError(i, "gradeLevel", <<"gradeLevel">>)))
          ELSE ParseLinesNoBreak(lines, i + 1,
                 Append(imported,
                        [line |-> i,
                         fields |-> [student EXCEPT !["gradeLevel"] = gradeLevel]]),
                 errors)

\* the loop over the data lines; line i of the content is "Line i" of the messages
RECURSIVE ParseLines(_, _, _, _)
ParseLines(lines, i, imported, errors) ==
  IF i > Len(lines) THEN [students |-> imported, errors |-> errors]
  ELSE IF IsBlank(lines[i]) THEN ParseLines(lines, i + 1, imported, errors)
  ELSE IF Len(lines[i]) # Len(lines[1])
    THEN ParseLines(lines, i + 1, imported,
                    Append(errors, CsvError(i, "fields", <<>>)))
  ELSE LET student == StudentOfLine(lines[1], lines[i])
           gradeLevel == ParseInt(student["gradeLevel"])
       IN IF MissingField(student) # {}
            THEN ParseLines(lines, i + 1, imported,
                   Append(errors,
                          CsvError(i, "missing",
                                   <<CHOOSE f \in MissingField(student) : TRUE>>)))
          ELSE IF gradeLevel = {}
            THEN ParseLines(lines, i + 1, imported,
                   Append(errors, CsvError(i, "gradeLevel", <<"gradeLevel">>)))
          ELSE \* the line number stands for the random id
               ParseLines(lines, i + 1,
                 Append(imported,
                        [line |-> i,
                         fields |-> [student EXCEPT !["gradeLevel"] = gradeLevel]]),
                 errors)

ImportResult(success, message, data, errors) ==
  [success |-> success, message |-> message, data |-> data, errors |-> errors]

\* a check that stops at the first header it misses
MissingHeadersFirstOnly(headers) ==
  LET missing == SelectSeq(RequiredHeaders, LAMBDA h : h \notin SeqRange(headers))
  IN IF missing = <<>> THEN <<>> ELSE <<Head(missing)>>

\* requiredHeaders.filter(header => !headers.includes(header))
MissingHeaders(headers) ==
  SelectSeq(RequiredHeaders, LAMBDA h : h \notin SeqRange(headers))

\* parseCSV; data and errors are {} where the result has none
ParseCSV(lines) ==
  LET missingHeaders == MissingHeaders(lines[1])
  IN IF Len(lines) < 2
       THEN ImportResult(FALSE, "CSV file is empty or invalid", {},
                         {<<CsvError(0, "noData", <<>>)>>})
     ELSE IF missingHeaders # <<>>
       THEN ImportResult(FALSE, "Missing required headers in CSV file", {},
                         {<<CsvError(0, "missingHeaders", missingHeaders)>>})
     ELSE LET parsed == ParseLines(lines, 2, <<>>, <<>>)
          IN IF parsed.students = <<>>
               THEN ImportResult(FALSE, "No valid students found in the CSV file", {},
                                 {parsed.errors})
               ELSE ImportResult(TRUE, "Successfully imported", {parsed.students},
                                 IF parsed.errors # <<>> THEN {parsed.errors} ELSE {})

(* ----------------------- specification of parseCSV --------------------- *)
HeaderLines ==
  { RequiredHeaders,
    RequiredHeaders \o <<"email">>,
    <<"gradeLevel", "studentId", "firstName", "lastName", "class">>,
    <<"studentId", "firstName", "lastName", "class">>,
    <<"firstName", "lastName", "class">>,
    <<"">> }

CellChars == {"1", "a"}
GradeCells == SeqsUpTo(CellChars, 2)

\* a data line under a header line: the cells of studentId and gradeLevel vary
DataLine(headers, studentId, gradeLevel) ==
  [i \in 1..Len(headers) |->
     IF headers[i] = "gradeLevel" THEN gradeLevel
     ELSE IF headers[i] = "studentId" THEN studentId
     ELSE <<"a">>]

DataLines(headers) ==
  {DataLine(headers, s, g) : s \in {<<>>, <<"a">>}, g \in GradeCells}
    \cup {SubSeq(DataLine(headers, <<"a">>, <<"1">>), 1, Len(headers) - 1) \o <<>>}
    \cup {<< <<>> >>, << <<" ">> >>}

InitImport ==
  /\ students = <<>>
  /\ attendance_records = {}
  /\ attendance_notifications = <<>>
  /\ lastCall = NoCalls
  /\ last = Idle
  /\ trend = NoTrend
  /\ calls = NoneInFlight
  /\ request = NoRequest
  /\ attempts = <<>>
  /\ response = NoRequest
  /\ phoneNumber = NoPhoneNumber
  /\ \E headers \in HeaderLines :
       \E rows \in SeqsUpTo(DataLines(headers) \ {<<>>}, MaxRows) :
         csv = [parsed |-> FALSE, lines |-> <<headers>> \o rows, result |-> {}]

ParseCsvFile ==
  /\ ~csv.parsed
  /\ csv' = [csv EXCEPT !.parsed = TRUE, !.result = {ParseCSV(csv.lines)}]
  /\ UNCHANGED <<storeVars, trendVars, dispatchVars, phoneNumber, callVars>>

NextImport == ParseCsvFile

SpecImport == InitImport /\ [][NextImport]_vars

(* ------------------------------ claims --------------------------------- *)
\* C1: after any sequence of recordAttendance calls, each run to completion, the
\* store holds exactly one record for (s, d) when a call targeted (s, d), with the
\* status of the most recent such call, and none otherwise.
C1_OneRecordLatestStatus ==
  \A s \in StudentIds, d \in Dates :
    LET rs == {r \in attendance_records : r.student_id = s /\ r.date = d}
    IN IF lastCall[<<s, d>>] = "none"
         THEN rs = {}
         ELSE Cardinality(rs) = 1 /\ \A r \in rs : r.status = lastCall[<<s, d>>]

\* a second call for the same (student, date) has just updated the row it found
C1_Witness ==
  /\ last.op = "recordAttendance" /\ last.ok /\ last.n = 1
  /\ \E d \in Dates : \E r \in attendance_records :
       r.student_id = last.student /\ r.date = d /\ r.status = lastCall[<<last.student, d>>]
  /\ Cardinality(attendance_records) >= 2

\* the store without the soft-deleted students and without their records
ActiveRows == {row \in Rows : ~Truthy(row.deleted_at)}
ActiveRecords == {r \in attendance_records : r.student_id \in {row.id : row \in ActiveRows}}

\* C2: a student whose deletedAt is set is excluded entirely from every
\* active-roster query and every aggregation: each returns what it returns on the
\* store without the soft-deleted students and their attendance records.
C2_SoftDeletedExcluded ==
  LET all == {DashboardStudent(row) : row \in Rows}
      active == {DashboardStudent(row) : row \in ActiveRows}
  IN /\ GetStudents(Rows) = GetStudents(ActiveRows)
     /\ \A d \in Dates :
          GetAttendanceSummary(Rows, attendance_records, d)
            = GetAttendanceSummary(ActiveRows, ActiveRecords, d)
     /\ GetClassSummaries(Rows, attendance_records)
          = GetClassSummaries(ActiveRows, ActiveRecords)
     /\ GetTotalAbsences(all, attendance_records) = GetTotalAbsences(active, ActiveRecords)
     /\ GetTotalPresences(all, attendance_records) = GetTotalPresences(active, ActiveRecords)
     /\ GetTodayAttendance(all, attendance_records) = GetTodayAttendance(active, ActiveRecords)
     /\ GetTotalAttendanceByClass(all, attendance_records)
          = GetTotalAttendanceByClass(active, ActiveRecords)
     /\ CheckAttendanceTrends(all, attendance_records, {})
          = CheckAttendanceTrends(active, ActiveRecords, {})

\* C3: after deleteStudent(s) completes successfully there is no student row s and
\* no attendance record of s, and the records of every other student are unchanged.
C3_DeleteRemovesStudentAndRecords ==
  [][\A s \in StudentIds :
       (last'.op = "deleteStudent" /\ last'.student = s /\ last'.ok)
         => /\ s \notin DOMAIN students'
            /\ {r \in attendance_records' : r.student_id = s} = {}
            /\ {r \in attendance_records' : r.student_id # s}
                 = {r \in attendance_records : r.student_id # s}]_vars

\* deleteStudent has removed a student that had records while another student has some
C3_Witness ==
  /\ last.op = "deleteStudent" /\ last.ok /\ last.n >= 1
  /\ last.student \notin DOMAIN students
  /\ \E r \in attendance_records : r.student_id # last.student

\* the statuses of a student's in-window records, most recent first
StatusSeq(s) ==
  LET sorted == SortedRecords(WindowRecords(attendance_records, s))
  IN [i \in 1..Len(sorted) |-> sorted[i].status]

\* the length of the longest contiguous run of absent anywhere in a sequence
LongestRun(seq) ==
  LET runs == {<<i, j>> \in (1..Len(seq)) \X (1..Len(seq)) :
                 i <= j /\ \A k \in i..j : seq[k] = "absent"}
  IN IF runs = {} THEN 0
     ELSE LET best == CHOOSE p \in runs : \A q \in runs : q[2] - q[1] <= p[2] - p[1]
          IN best[2] - best[1] + 1

\* C4: consecutiveAbsences is the length of the longest contiguous run of absent
\* anywhere in the most-recent-first sequence of in-window statuses; it is 3 for
\* [absent, absent, present, absent, absent, absent].
C4_LongestRunAnywhere ==
  trend.done =>
    /\ \A sm \in trend.result :
         sm.consecutiveAbsences = LongestRun(StatusSeq(sm.studentId))
    /\ \A s \in DOMAIN students :
         StatusSeq(s) = <<"absent", "absent", "present", "absent", "absent", "absent">>
           => \E sm \in trend.result : sm.studentId = s /\ sm.consecutiveAbsences = 3

\* the trend of [absent, absent, present, absent, absent, absent] has been computed
C4_Witness ==
  /\ trend.done
  /\ \E sm \in trend.result :
       /\ StatusSeq(sm.studentId) =
            <<"absent", "absent", "present", "absent", "absent", "absent">>
       /\ sm.consecutiveAbsences = 3

\* C5: needsAttention is true exactly when consecutiveAbsences >= 3 or
\* (absenceRate > 20 and the window holds at least 5 records); no records, or a
\* rate over 20 with fewer than 5 records and a longest run below 3, is not flagged.
C5_NeedsAttentionRule ==
  trend.done =>
    \A sm \in trend.result :
      LET over == sm.absenceRate.num > 20 * sm.absenceRate.den
      IN /\ sm.needsAttention <=>
              (sm.consecutiveAbsences >= 3 \/ (over /\ sm.total >= 5))
         /\ sm.total = Len(StatusSeq(sm.studentId))
         /\ sm.absenceRate.num * sm.total = 100 * sm.absent * sm.absenceRate.den
         /\ sm.total = 0 => ~sm.needsAttention
         /\ (over /\ sm.total < 5 /\ sm.consecutiveAbsences < 3) => ~sm.needsAttention

\* a student with a rate over 20, fewer than 5 records and no run of 3 was evaluated
C5_Witness ==
  /\ trend.done
  /\ \E sm \in trend.result :
       /\ sm.absenceRate.num > 20 * sm.absenceRate.den
       /\ sm.total < 5 /\ sm.total > 0
       /\ sm.consecutiveAbsences < 3
       /\ ~sm.needsAttention

\* a student flagged by the rate rule alone was evaluated
C5_WitnessRate ==
  /\ trend.done
  /\ \E sm \in trend.result :
       /\ sm.absenceRate.num > 20 * sm.absenceRate.den
       /\ sm.total >= 5
       /\ sm.consecutiveAbsences < 3
       /\ sm.needsAttention

(* --------------------- claims about the dispatchers --------------------- *)
Range(seq) == {seq[i] : i \in 1..Len(seq)}

\* the provider sends, the log inserts and the reported details of one student
SendsTo(s) == SelectSeq(attempts, LAMBDA a : a.student = s)
InsertsFor(s) == SelectSeq(attendance_notifications, LAMBDA i : i.row.student_id = s)
Reported(s) == {d \in Range(response.details) : d.studentId = s}

\* a dispatcher of the given kinds was invoked for student s and got hold of it
Dispatched(s, handlers) ==
  /\ request.handler \in handlers
  /\ s \in request.ids
  /\ s \in DOMAIN students
  /\ request.handler = "client" \/ ~Truthy(students[s].deleted_at)

HasPhone(s) == Truthy(ContactPhoneColumn(students[s]))
HasEmail(s) == Truthy(students[s].email)

C6_Case(s) ==
  /\ Dispatched(s, {"single", "bulk", "client"})
  /\ request.type = "sms"
  /\ ~HasPhone(s) /\ HasEmail(s)

C7_NoContactFailsWithoutSendOrWrite ==
  \A s \in StudentIds :
    (Dispatched(s, {"single", "bulk", "client"}) /\ ~HasPhone(s) /\ ~HasEmail(s)) =>
      /\ Reported(s) # {}
      /\ \A d \in Reported(s) : ~d.success /\ d.kind = "noContact"
      /\ SendsTo(s) = <<>>
      /\ InsertsFor(s) = <<>>

\* C8: when SMS or WhatsApp is requested and the stored student has a phone
\* number, the first channel attempted is the requested one, never email.
C8_PhoneChannelAttemptedFirst ==
  \A s \in StudentIds :
    (/\ Dispatched(s, {"single", "bulk"})
     /\ request.type \in {"sms", "whatsapp"}
     /\ HasPhone(s)) =>
      /\ SendsTo(s) # <<>>
      /\ SendsTo(s)[1].channel = request.type

CountIn(seq, Test(_)) == Cardinality({i \in 1..Len(seq) : Test(seq[i])})

\* C11: what the caller gets (success flag, reported channel, counts) is what the
\* sends determined and the log insert carried, whether that insert succeeded,
\* returned an error or threw.
C11_LogOutcomeNeverChangesResult ==
  request.handler # "none" =>
    /\ \A s \in StudentIds :
         \A i \in 1..Len(InsertsFor(s)) :
           /\ Reported(s) # {}
           /\ \A d \in Reported(s) :
                /\ d.success = InsertsFor(s)[i].row.success
                /\ d.channel = InsertsFor(s)[i].row.notification_type
    /\ request.handler \in {"single", "emailOnly"} /\ attendance_notifications # <<>> =>
         /\ response.success = attendance_notifications[1].row.success
         /\ response.status = IF response.success THEN 200 ELSE 500
    /\ request.handler = "bulk" /\ request.ids # {} =>
         /\ response.status = 200
         /\ response.counts.success =
              CountIn(attendance_notifications, LAMBDA i : i.row.success)
         /\ response.counts.failed =
              CountIn(attendance_notifications, LAMBDA i : ~i.row.success)
         /\ response.success = (response.counts.success > 0)

\* a dispatch succeeded although its log insert returned an error, and another
\* although its log insert threw
C11_Witness ==
  /\ request.handler \in {"single", "bulk", "client"}
  /\ attendance_notifications # <<>>
  /\ attendance_notifications[1].outcome \in {"error", "throws"}
  /\ attendance_notifications[1].row.success
  /\ response.success

\* the students a batch dispatch got hold of
Batch ==
  IF request.handler = "bulk"
    THEN {s \in request.ids : s \in DOMAIN students /\ ~Truthy(students[s].deleted_at)}
  ELSE IF request.handler = "clientBulk" THEN request.ids
  ELSE {}

\* what the dispatch of student s alone comes to under the running request
OwnOutcome(s) ==
  IF request.handler = "bulk"
    THEN BulkDispatch(students[s], request.type, request.message,
                      s \notin request.smsFail, s \notin request.emailFail)
    ELSE ClientOutcome(StudentOfRow(students[s]), request.type)

\* C12: in a batch dispatch a student whose dispatch fails (the provider rejects
\* on every channel it has, or it has no contact information) does not end the
\* batch: every student of the batch is processed and gets its own outcome.
C12_FailureNeverAbortsBatch ==
  \A s \in Batch :
    /\ Cardinality({i \in 1..Len(response.details) : response.details[i].studentId = s}) = 1
    /\ \A d \in Reported(s) :
         /\ d.success = OwnOutcome(s).success
         /\ d.kind = OwnOutcome(s).kind
         /\ d.channel = OwnOutcome(s).channel
    /\ SendsTo(s) = OwnOutcome(s).sends

\* the first student of a server batch failed and the second was still sent to;
C12_Witness ==
  /\ request.handler = "bulk"
  /\ Batch = {1, 2}
  /\ \E d \in Reported(1) : ~d.success
  /\ \E d \in Reported(2) : d.success
  /\ SendsTo(2) # <<>>

\* the first student of a client batch failed and the second was still sent to
C12_WitnessClient ==
  /\ request.handler = "clientBulk"
  /\ Batch = {1, 2}
  /\ \E d \in Reported(1) : ~d.success
  /\ \E d \in Reported(2) : d.success

\* the students a bulk handler fetched for the running request
Fetched == {s \in request.ids : s \in DOMAIN students /\ ~Truthy(students[s].deleted_at)}

\* C13: when a bulk handler returns its 200 response, success + failed +
\* noContact is the number of students fetched, the details hold exactly one
\* entry per fetched student, and the entries with success = true are as many as
\* the success count.
C13_CountsAndDetailsAddUp ==
  (request.handler \in {"bulk", "bulkWhatsApp"} /\ response.status = 200) =>
    /\ response.counts.success + response.counts.failed + response.counts.noContact
         = Cardinality(Fetched)
    /\ Len(response.details) = Cardinality(Fetched)
    /\ \A s \in Fetched : Reported(s) # {}
    /\ CountIn(response.details, LAMBDA d : d.success) = response.counts.success

\* a 200 response over two fetched students, one sent to and one without contact
\* information
C13_Witness ==
  /\ request.handler \in {"bulk", "bulkWhatsApp"}
  /\ response.status = 200
  /\ Cardinality(Fetched) = 2
  /\ response.counts.success = 1
  /\ response.counts.noContact = 1

(* ------------------ claims about the phone normalization ---------------- *)
\* C14: normalizing a normalized number gives the same number, for every input.
C14_FormatIsIdempotent ==
  (phoneNumber.version # "none" /\ phoneNumber.twice # {}) =>
    phoneNumber.twice = phoneNumber.once

\* a number whose digits lacked the country code was normalized twice
C14_Witness ==
  /\ phoneNumber.version # "none"
  /\ phoneNumber.twice # {}
  /\ phoneNumber.input = <<"5", "-", "2">>

\* the digits of a string, in order
DigitsOf(s) == SelectSeq(s, LAMBDA c : c \in DigitChars)

\* C15: for a non-empty input the normalized number is "+" and the input's
\* digits when these begin with 230, and "+230" and the input's digits
\* otherwise; "52341234" gives "+23052341234".
C15_FormatPrefixesCountryCode ==
  (phoneNumber.version # "none" /\ phoneNumber.input # <<>>) =>
    \A number \in phoneNumber.once :
      LET digits == DigitsOf(phoneNumber.input)
          has230 == /\ Len(digits) >= 3
                    /\ digits[1] = "2" /\ digits[2] = "3" /\ digits[3] = "0"
      IN /\ has230 => number = <<"+">> \o digits
         /\ ~has230 => number = <<"+", "2", "3", "0">> \o digits
         /\ phoneNumber.input = ExamplePhone =>
              number = <<"+", "2", "3", "0", "5", "2", "3", "4", "1", "2", "3", "4">>

\* the example number was normalized
C15_Witness ==
  /\ phoneNumber.version # "none"
  /\ phoneNumber.input = ExamplePhone
  /\ phoneNumber.once # {}

\* a number that already carried the country code was normalized
C15_WitnessHasCode ==
  /\ phoneNumber.version # "none"
  /\ phoneNumber.input = <<"+", "2", "3", "0">>
  /\ phoneNumber.once = {<<"+", "2", "3", "0">>}

(* ------------------------- claims about parseCSV ------------------------ *)
LacksRequired(headers) == SeqRange(RequiredHeaders) \ SeqRange(headers)

NamesMissingHeaders(r, headers) ==
  \E errors \in r.errors :
    \E i \in 1..Len(errors) :
      /\ errors[i].kind = "missingHeaders"
      /\ SeqRange(errors[i].names) = LacksRequired(headers)

\* C16 as stated: on a file whose header line lacks a required column parseCSV
\* returns success = false with an error naming the missing headers and imports
\* no student, however many data rows follow.
C16_MissingHeadersFailWholeFile ==
  (csv.parsed /\ LacksRequired(csv.lines[1]) # {}) =>
    \A r \in csv.result :
      /\ ~r.success
      /\ r.data = {}
      /\ NamesMissingHeaders(r, csv.lines[1])

\* C16, amended: the same, for a content that has at least one line after the
\* header line (a content of one line is answered as an empty file).
C16_MissingHeadersFailFileWithLines ==
  (csv.parsed /\ LacksRequired(csv.lines[1]) # {} /\ Len(csv.lines) >= 2) =>
    \A r \in csv.result :
      /\ ~r.success
      /\ r.data = {}
      /\ NamesMissingHeaders(r, csv.lines[1])

\* a file without the gradeLevel column and with three data rows was refused
C16_Witness ==
  /\ csv.parsed
  /\ csv.lines[1] = <<"studentId", "firstName", "lastName", "class">>
  /\ Len(csv.lines) = 4
  /\ \A i \in 2..4 : ~IsBlank(csv.lines[i])
  /\ \E r \in csv.result : ~r.success /\ NamesMissingHeaders(r, csv.lines[1])

\* the cell of a line under the (last) header of that name
CellOf(headers, line, name) ==
  line[CHOOSE i \in 1..Len(headers) :
         headers[i] = name /\ \A j \in 1..Len(headers) : headers[j] = name => j <= i]

IsNumber(cell) == cell # <<>> /\ \A i \in 1..Len(cell) : cell[i] \in DigitChars

WellFormed(headers, line) ==
  /\ Len(line) = Len(headers)
  /\ \A f \in SeqRange(RequiredHeaders) : CellOf(headers, line, f) # <<>>

ValidRow(headers, line) ==
  WellFormed(headers, line) /\ IsNumber(CellOf(headers, line, "gradeLevel"))

NonNumericRow(headers, line) ==
  WellFormed(headers, line) /\ ~IsNumber(CellOf(headers, line, "gradeLevel"))

DataRows == {i \in 2..Len(csv.lines) : ~IsBlank(csv.lines[i])}
ValidRows == {i \in DataRows : ValidRow(csv.lines[1], csv.lines[i])}
NonNumericRows == {i \in DataRows : NonNumericRow(csv.lines[1], csv.lines[i])}

C17_Case ==
  /\ csv.parsed
  /\ LacksRequired(csv.lines[1]) = {}
  /\ Cardinality(NonNumericRows) = 1
  /\ ValidRows # {}
  /\ DataRows = ValidRows \cup NonNumericRows

\* C17: with valid headers, exactly one data row whose gradeLevel is not a
\* number and n >= 1 valid rows, parseCSV returns success = true with exactly the
\* n valid rows in data and exactly one line-level error.
C17_OneMalformedRowOneError ==
  C17_Case =>
    \A r \in csv.result :
      /\ r.success
      /\ \E data \in r.data :
           /\ Len(data) = Cardinality(ValidRows)
           /\ {data[k].line : k \in 1..Len(data)} = ValidRows
      /\ \E errors \in r.errors :
           /\ Len(errors) = 1
           /\ errors[1].line \in NonNumericRows

\* the outcomes of line i in a result: students imported from it, errors naming it
StudentsOfLine(r, i) ==
  IF r.data = {} THEN 0
  ELSE CountIn(CHOOSE data \in r.data : TRUE, LAMBDA st : st.line = i)

ErrorsOfLine(r, i) ==
  IF r.errors = {} THEN 0
  ELSE CountIn(CHOOSE errors \in r.errors : TRUE, LAMBDA err : err.line = i)

Total(r, field) == IF r[field] = {} THEN 0 ELSE Len(CHOOSE seq \in r[field] : TRUE)

\* C28: with valid headers parseCSV produces exactly one outcome per non-blank
\* data line: imported students plus line-level errors equal the number of
\* non-blank data lines, and no line yields both a student and an error, or
\* more than one error.
C28_OneOutcomePerDataLine ==
  (csv.parsed /\ LacksRequired(csv.lines[1]) = {}) =>
    \A r \in csv.result :
      /\ \A i \in DataRows : StudentsOfLine(r, i) + ErrorsOfLine(r, i) = 1
      /\ Total(r, "data") + CountIn(IF r.errors = {} THEN <<>>
                                     ELSE CHOOSE errors \in r.errors : TRUE,
                                    LAMBDA err : err.line >= 2)
           = Cardinality(DataRows)

\* three lines after valid headers: a blank one, one imported, one refused for
\* its missing studentId
C28_Witness ==
  /\ csv.parsed
  /\ LacksRequired(csv.lines[1]) = {}
  /\ Len(csv.lines) = 4
  /\ Cardinality(DataRows) = 2
  /\ \E r \in csv.result :
       /\ Total(r, "data") = 1
       /\ \E errors \in r.errors : Len(errors) = 1 /\ errors[1].kind = "missing"

(* ----------------------- claims about the summaries --------------------- *)
\* C18: when the store holds no attendance record at all, the class summaries
\* report an attendanceRate of 100 for every class, not 0.
C18_NoRecordsRateIs100 ==
  attendance_records = {} =>
    \A sm \in GetClassSummaries(Rows, attendance_records)
                \cup GetTotalAttendanceByClass({DashboardStudent(row) : row \in Rows},
                                               attendance_records) :
      sm.attendanceRate.num = 100 * sm.attendanceRate.den

\* C19: for every date d, getAttendanceSummary(d) returns as present, absent,
\* late and excused the numbers of records stamped d with that status, and as
\* total the number of active (not soft-deleted) students.
C19_SummaryCountsRecordsAndActiveStudents ==
  \A d \in Dates :
    LET sm == GetAttendanceSummary(Rows, attendance_records, d)
        stamped(st) == Cardinality({r \in attendance_records : r.date = d /\ r.status = st})
    IN /\ sm.present = stamped("present")
       /\ sm.absent = stamped("absent")
       /\ sm.late = stamped("late")
       /\ sm.excused = stamped("excused")
       /\ sm.total = Cardinality(ActiveRows)

FinishedOk(c, op) == calls[c].op = op /\ calls[c].pc = "done"

C22_WindowIsThirtyDaysInclusive ==
  trend.done =>
    \A summary \in trend.result :
      summary.total =
        Cardinality({r \in RecordsOf(summary.studentId) :
                       r.date <= Today /\ Today - r.date < 30})

\* the active students of the roster whose records query the store failed
FailedFetches ==
  {s \in DOMAIN students : ~Truthy(students[s].deleted_at) /\ s \in trend.failing}

\* C23: when the store returns an error for the records of any student, the whole
\* checkAttendanceTrends fails to its caller; it never returns a list that
\* leaves out the students whose fetch failed.
C23_FetchErrorFailsWholeOperation ==
  (trend.done /\ FailedFetches # {}) =>
    \/ trend.threw
    \/ \A s \in FailedFetches : \E summary \in trend.result : summary.studentId = s

(* --------------------- claims about class summaries --------------------- *)
\* today's records with status present or late among the students of a class
PresentOrLateToday(className) ==
  Cardinality({r \in attendance_records :
                 /\ r.date = Today
                 /\ r.status \in {"present", "late"}
                 /\ r.student_id \in DOMAIN students
                 /\ students[r.student_id].class = className})

\* C24: the presentCount of every class summary, of getClassSummaries and of
\* getTotalAttendanceByClass, is the number of today's attendance records with
\* status present or late among the students of the class.
C24_PresentCountIsTodaysPresentOrLate ==
  /\ \A summary \in GetClassSummaries(Rows, attendance_records) :
       summary.presentCount = PresentOrLateToday(summary.className)
  /\ \A summary \in GetTotalAttendanceByClass({DashboardStudent(row) : row \in Rows},
                                              attendance_records) :
       summary.presentCount = PresentOrLateToday(summary.className)

\* a rate num / den lies between 0 and 100
RateInRange(rate) == rate.den > 0 /\ rate.num >= 0 /\ rate.num <= 100 * rate.den

\* C30: in a store with at most one record per (studentId, date) the
\* attendanceRate of every class summary lies between 0 and 100 inclusive, in
\* getClassSummaries of supabaseService, getClassSummaries of attendance and
\* getTotalAttendanceByClass.
C30_AttendanceRateWithinBounds ==
  (\A s \in StudentIds, d \in Dates : Cardinality(Existing(s, d)) <= 1) =>
    /\ \A summary \in GetClassSummaries(Rows, attendance_records) :
         RateInRange(summary.attendanceRate)
    /\ \A summary \in LocalClassSummaries(GetStudents(Rows), attendance_records) :
         RateInRange(summary.attendanceRate)
    /\ \A summary \in GetTotalAttendanceByClass({DashboardStudent(row) : row \in Rows},
                                                attendance_records) :
         RateInRange(summary.attendanceRate)

\* a class of two students with a record on each of two dates, three of the four
\* present or late: a rate strictly between 0 and 100
C30_Witness ==
  /\ \A s \in StudentIds, d \in Dates : Cardinality(Existing(s, d)) = 1
  /\ \E summary \in GetClassSummaries(Rows, attendance_records) :
       /\ summary.totalStudents = 2
       /\ summary.attendanceRate = Rate(300, 4)
  /\ \E summary \in LocalClassSummaries(GetStudents(Rows), attendance_records) :
       summary.attendanceRate = Rate(300, 4)

(* --------------- claims about sendBulkNotifications in flight ----------- *)
Started(k) == k \in calls.inFlight \/ calls.counted[k] > 0
Completed(k) == k \notin calls.inFlight /\ calls.counted[k] > 0
\* the group of the student at position k of the list: groups of five
GroupOf(k) == (k - 1) \div 5

\* C25: during sendBulkNotifications at most 5 sendStudentNotification calls are
\* in flight, and no call for a student of a group has started unless every
\* call of the groups before it has completed.
C25_BoundedBatchesInOrder ==
  /\ Cardinality(calls.inFlight) <= 5
  /\ \A j \in DOMAIN calls.list, k \in DOMAIN calls.list :
       (Started(k) /\ GroupOf(j) < GroupOf(k)) => Completed(j)

\* the sixth student's call in flight, the five calls of the first group
\* completed
C25_Witness ==
  /\ Len(calls.list) = 6
  /\ calls.inFlight = {6}
  /\ \A j \in 1..5 : Completed(j)

\* C26: for every list and every order in which the calls in flight complete,
\* sendBulkNotifications returns, and the counts it returns add up to the number
\* of students, each student counted exactly once.
C26_TerminatesWithEveryStudentCounted ==
  /\ <>(calls.pc = "returned")
  /\ [](calls.pc = "returned" =>
          /\ response.success + response.failed = Len(calls.list)
          /\ \A k \in DOMAIN calls.list : calls.counted[k] = 1)

\* returned for six students, one of them without contact, the second batch
\* counted too
C26_Witness ==
  /\ calls.pc = "returned"
  /\ Len(calls.list) = 6
  /\ response.success = 5
  /\ response.failed = 1

(* ------------------ claims about soft-deleted students ------------------ *)
\* C29: no dispatch path (the single and bulk edge-function handlers, the client's
\* sendStudentNotification and sendBulkNotifications) sends a notification to a
\* student whose deletedAt is set, or writes a successful log row for one.
C29_NoDispatchToDeletedStudent ==
  \A s \in DOMAIN students :
    Truthy(students[s].deleted_at) =>
      /\ SendsTo(s) = <<>>
      /\ \A i \in Range(InsertsFor(s)) : ~i.row.success

====
